---------------------------- MODULE Spec2Model ----------------------------
(***************************************************************************)
(* CineMind backend (backend/server.py): the multi-agent orchestration     *)
(* pipeline behind POST /api/analyze-movie.                                *)
(*                                                                         *)
(* Python values are tagged records (kind = "none", "str", "num", "list",  *)
(* "dict").  A Python str is a sequence of tokens: whitespace, the fence   *)
(* marker ```, a word, the text of one complete JSON value, or one of the  *)
(* two parts of a JSON text that holds the marker inside.  str.strip,      *)
(* str.startswith, str.split, slicing and json.loads are modelled on these *)
(* token sequences.                                                        *)
(***************************************************************************)
EXTENDS Integers, Sequences, FiniteSets, TLC

VARIABLES
    EMERGENT_LLM_KEY,   \* module global: TRUE iff the provider key is configured
    store,              \* db.movie_analyses: the documents inserted, in order
    pc,                 \* per request: where its task is suspended
    entry,              \* per request: "endpoint" (HTTP) or "direct" (analyze_movie called directly)
    request,            \* per request: the MovieAnalysisRequest received
    movie_title,        \* analyze_movie argument
    preferences,        \* analyze_movie argument
    plan_data,          \* analyze_movie local
    genre,              \* analyze_movie local
    critic_analysis,    \* analyze_movie local
    sentiment_data,     \* analyze_movie local
    summary,            \* analyze_movie local
    recommendations,    \* analyze_movie local
    captions,           \* analyze_movie local
    personalized_recs,  \* analyze_movie local
    result,             \* what analyze_movie returned (validated_result)
    outcome,            \* what the caller received
    calls,              \* history: the Generation Port calls issued, in order
    responses,          \* history: the completions returned, in order
    warnings            \* history: keys for which validator_agent logged a spoiler warning

vars == <<EMERGENT_LLM_KEY, store, pc, entry, request, movie_title, preferences,
          plan_data, genre, critic_analysis, sentiment_data, summary,
          recommendations, captions, personalized_recs, result, outcome,
          calls, responses, warnings>>

-----------------------------------------------------------------------------
(* Python values *)

PyNone == [kind |-> "none"]
PyStr(s) == [kind |-> "str", s |-> s]
PyNum(n) == [kind |-> "num", n |-> n]
PyList(items) == [kind |-> "list", items |-> items]
PyDict(d) == [kind |-> "dict", d |-> d]
Unset == [kind |-> "unset"]

(* Python truthiness: None, "", 0, [] and {} are falsy *)
Truthy(v) ==
    CASE v.kind = "none" -> FALSE
      [] v.kind = "str"  -> Len(v.s) > 0
      [] v.kind = "num"  -> v.n # 0
      [] v.kind = "list" -> Len(v.items) > 0
      [] v.kind = "dict" -> DOMAIN v.d # {}
      [] OTHER -> FALSE

Ok(v) == [ok |-> TRUE, val |-> v]
Raise(e) == [ok |-> FALSE, exc |-> e]

(* dict.get(key, default); any other type has no attribute get *)
Get(v, key, default) ==
    IF v.kind # "dict" THEN Raise("AttributeError")
    ELSE IF key \in DOMAIN v.d THEN Ok(v.d[key]) ELSE Ok(default)

-----------------------------------------------------------------------------
(* Text *)

Ws == [tok |-> "ws"]
Fence == [tok |-> "fence"]
Word(w) == [tok |-> "word", w |-> w]
Json(v) == [tok |-> "val", val |-> v]

RECURSIVE LStrip(_)
LStrip(s) == IF s # <<>> /\ Head(s) = Ws THEN LStrip(Tail(s)) ELSE s

RECURSIVE RStrip(_)
RStrip(s) == IF s # <<>> /\ s[Len(s)] = Ws THEN RStrip(SubSeq(s, 1, Len(s) - 1)) ELSE s

(* variant: nothing is stripped *)
StripNothing(s) == s

(* str.strip() *)
Strip(s) == RStrip(LStrip(s))

(* str.startswith(prefix) for a one-token prefix *)
StartsWith(s, t) == s # <<>> /\ Head(s) = t

(* str.split("```"): the pieces between the fence markers *)
RECURSIVE SplitFrom(_, _)
SplitFrom(s, cur) ==
    IF s = <<>> THEN <<cur>>
    ELSE IF Head(s) = Fence THEN <<cur>> \o SplitFrom(Tail(s), <<>>)
    ELSE SplitFrom(Tail(s), Append(cur, Head(s)))

Split(s) == SplitFrom(s, <<>>)

(* the text of a JSON value one of whose strings holds the fence marker:   *)
(* the part before the marker and the part after it                        *)
JsonHead(v) == [tok |-> "head", val |-> v]
JsonTail(v) == [tok |-> "tail", val |-> v]

(* variant: a one-element array is unwrapped *)
JsonLoadsUnwraps(s) ==
    LET c == Strip(s)
    IN  IF Len(c) = 1 /\ c[1].tok = "val"
        THEN IF c[1].val.kind = "list" /\ Len(c[1].val.items) = 1
             THEN Ok(c[1].val.items[1]) ELSE Ok(c[1].val)
        ELSE Raise("JSONDecodeError")

(* json.loads: one JSON value, whitespace allowed around it *)
JsonLoads(s) ==
    LET c == Strip(s)
    IN  IF Len(c) = 1 /\ c[1].tok = "val" THEN Ok(c[1].val)
        ELSE IF Len(c) = 3 /\ c[1].tok = "head" /\ c[2] = Fence /\ c[3] = JsonTail(c[1].val)
        THEN Ok(c[1].val)
        ELSE Raise("JSONDecodeError")

(* the body of each agent's try block *)
CleanAndLoad(response) ==
    LET cleaned == Strip(response)
        inner == IF StartsWith(cleaned, Fence) THEN Split(cleaned)[2] ELSE cleaned
        untagged == IF StartsWith(cleaned, Fence) /\ StartsWith(inner, Word("json"))
                    THEN Tail(inner) ELSE inner
    IN  JsonLoads(untagged)

(* try: return json.loads(cleaned)  except: return fallback *)
ParseOr(response, fallback) ==
    LET r == CleanAndLoad(response)
    IN  IF r.ok THEN r.val ELSE fallback

-----------------------------------------------------------------------------
(* Agents: what each does with the completion the Generation Port returned *)

Num(i) == [tok |-> "num", n |-> i]
S(w) == PyStr(<<Word(w)>>)

(* variant: another default genre *)
PlannerDefaultUnknown ==
    PyDict([genre |-> S("Unknown"), year |-> S("N/A"), type |-> S("Movie")])

PlannerDefault ==
    PyDict([genre |-> S("Drama"), year |-> S("N/A"), type |-> S("Movie")])

(* variant: the parsed completion is discarded *)
PlannerAlwaysDefault(response) == PlannerDefault

planner_agent(response) == ParseOr(response, PlannerDefault)

critic_agent(response) == PyStr(response)

SentimentDefault ==
    PyDict([overall |-> S("Mixed"),
            analysis |-> S("Audience reception varies based on individual preferences.")])

sentiment_agent(response) == ParseOr(response, SentimentDefault)

summary_agent(response) == PyStr(response)

(* variant: the default is the empty list *)
RecommendationDefaultEmpty == PyList(<<>>)

RecommendationDefault ==
    PyList(<<PyDict([title |-> S("Similar Movie"),
                     reason |-> S("Based on similar themes and genre.")])>>)

recommendation_agent(response) == ParseOr(response, RecommendationDefault)

SocialDefault(title) ==
    PyList(<<PyStr(<<Word("Just watched ")>> \o title \o <<Word("! #MovieNight #Cinema")>>),
             PyStr(title \o <<Word(" hits different #MustWatch #Film")>>),
             PyStr(<<Word("This one's a gem ")>> \o title \o <<Word(" #Movies #Recommended")>>)>>)

social_media_agent(title, response) == ParseOr(response, SocialDefault(title))

PreferenceKeys == {"favorite_genres", "favorite_languages", "favorite_movies", "current_mood"}

(* variant: only absent preferences short-circuit *)
NoPersonalizationAbsentOnly(prefs) == ~Truthy(prefs)

(* the guard of personalized_recommendation_agent: return [] without a call *)
NoPersonalization(prefs) ==
    \/ ~Truthy(prefs)
    \/ \A k \in PreferenceKeys : ~Truthy(Get(prefs, k, PyNone).val)

personalized_recommendation_agent(response) == ParseOr(response, PyList(<<>>))

-----------------------------------------------------------------------------
(* Validator *)

spoiler_words == {"dies", "killed", "murder", "twist is", "ending", "final scene", "plot twist"}

(* str.lower() on the words of the model's vocabulary *)
LowerWord(w) ==
    CASE w = "Ending" -> "ending"
      [] w = "PLOT TWIST" -> "plot twist"
      [] w = "Dies" -> "dies"
      [] OTHER -> w

Lower(s) == [i \in 1..Len(s) |-> IF s[i].tok = "word" THEN Word(LowerWord(s[i].w)) ELSE s[i]]

(* word in content *)
Contains(content, w) == \E i \in 1..Len(content) : content[i] = Word(w)

MaxRecommendations == 5
MaxCaptions == 3

Min(a, b) == IF a < b THEN a ELSE b

(* recs[:n] *)
Prefix(items, n) == SubSeq(items, 1, Min(n, Len(items)))

(* variant: the last n entries are kept *)
CapListLast(v, n) ==
    IF v.kind # "list" THEN PyList(<<>>)
    ELSE PyList(SubSeq(v.items, Len(v.items) - Min(n, Len(v.items)) + 1, Len(v.items)))

(* variant: a list is passed on whole *)
CapListUncapped(v, n) == IF v.kind # "list" THEN PyList(<<>>) ELSE v

(* variant: a value that is no list is passed on *)
CapListKeepsNonList(v, n) == IF v.kind # "list" THEN v ELSE PyList(Prefix(v.items, n))

CapList(v, n) == IF v.kind # "list" THEN PyList(<<>>) ELSE PyList(Prefix(v.items, n))

ScannedKeys == {"critic_analysis", "summary", "audience_sentiment"}

(* variant: a text holding a spoiler word is blanked *)
validator_agent_redacts(analysis_data) ==
    IF \E key \in ScannedKeys : analysis_data[key].kind # "str"
    THEN Raise("AttributeError")
    ELSE LET warned == {key \in ScannedKeys :
                           \E w \in spoiler_words :
                               Contains(Lower(analysis_data[key].s), w)}
         IN  Ok([data |-> [key \in DOMAIN analysis_data |->
                              IF key \in warned THEN PyStr(<<>>)
                              ELSE IF key = "recommendations"
                              THEN CapList(analysis_data[key], MaxRecommendations)
                              ELSE IF key = "instagram_captions"
                              THEN CapList(analysis_data[key], MaxCaptions)
                              ELSE analysis_data[key]],
                 warned |-> warned])

(* validator_agent: .lower() raises on a value that is no str *)
validator_agent(analysis_data) ==
    IF \E key \in ScannedKeys : analysis_data[key].kind # "str"
    THEN Raise("AttributeError")
    ELSE Ok([data |-> [analysis_data EXCEPT
                          !.recommendations = CapList(@, MaxRecommendations),
                          !.instagram_captions = CapList(@, MaxCaptions)],
             warned |-> {key \in ScannedKeys :
                            \E w \in spoiler_words :
                                Contains(Lower(analysis_data[key].s), w)}])

-----------------------------------------------------------------------------
(* Response model (pydantic): the endpoint builds MovieAnalysisResponse from the result *)

IsStr(v) == v.kind = "str"

IsRecommendation(v) ==
    /\ v.kind = "dict"
    /\ {"title", "reason"} \subseteq DOMAIN v.d
    /\ IsStr(v.d["title"]) /\ IsStr(v.d["reason"])

IsRecommendationList(v) ==
    v.kind = "list" /\ \A i \in 1..Len(v.items) : IsRecommendation(v.items[i])

IsStrList(v) == v.kind = "list" /\ \A i \in 1..Len(v.items) : IsStr(v.items[i])

ValidResponse(data) ==
    /\ IsStr(data.movie_title) /\ IsStr(data.genre) /\ IsStr(data.overall_sentiment)
    /\ IsStr(data.critic_analysis) /\ IsStr(data.audience_sentiment) /\ IsStr(data.summary)
    /\ IsRecommendationList(data.recommendations)
    /\ IsRecommendationList(data.personalized_recommendations)
    /\ IsStrList(data.instagram_captions)

(* a Recommendation keeps the two declared fields only *)
Recommendation(v) == PyDict([title |-> v.d["title"], reason |-> v.d["reason"]])

RecommendationList(v) == PyList([i \in 1..Len(v.items) |-> Recommendation(v.items[i])])

(* the response object: the validated fields plus the generated id *)
MovieAnalysisResponse(id, data) ==
    [id |-> id,
     movie_title |-> data.movie_title,
     genre |-> data.genre,
     overall_sentiment |-> data.overall_sentiment,
     critic_analysis |-> data.critic_analysis,
     audience_sentiment |-> data.audience_sentiment,
     summary |-> data.summary,
     recommendations |-> RecommendationList(data.recommendations),
     personalized_recommendations |-> RecommendationList(data.personalized_recommendations),
     instagram_captions |-> data.instagram_captions]

-----------------------------------------------------------------------------
(* What the caller receives *)

Http400 == [kind |-> "http", status |-> 400, detail |-> "Movie title is required"]

(* variant: the missing key is reported as a failed analysis *)
Http500NoKeyAsFailure ==
    [kind |-> "http", status |-> 500, detail |-> "Analysis failed", exc |-> "KeyError"]

Http500NoKey == [kind |-> "http", status |-> 500, detail |-> "LLM API key not configured"]

Http500(e) == [kind |-> "http", status |-> 500, detail |-> "Analysis failed", exc |-> e]
Http200(response) == [kind |-> "http", status |-> 200, body |-> response]
Returned(v) == [kind |-> "returned", value |-> v]
Raised(e) == [kind |-> "raised", exc |-> e]

GenStages == {"planner", "critic", "sentiment", "summary", "recommendation", "social",
              "personalized"}

(* chat.send_message(...) issued by `agent`; the task is suspended until it returns *)
Issue(r, agent, g) ==
    /\ calls' = [calls EXCEPT ![r] = Append(@, [agent |-> agent, genre |-> g])]
    /\ pc' = [pc EXCEPT ![r] = agent]

Received(r, text) == responses' = [responses EXCEPT ![r] = Append(@, text)]

(* variant: the error is reported but the task goes on *)
AbortKeepsRunning(r, e) ==
    /\ outcome' = [outcome EXCEPT ![r] =
                      IF entry[r] = "endpoint" THEN Http500(e) ELSE Raised(e)]
    /\ UNCHANGED pc

(* an exception leaves analyze_movie: the endpoint's except clause turns it into a 500 *)
Abort(r, e) ==
    /\ pc' = [pc EXCEPT ![r] = "failed"]
    /\ outcome' = [outcome EXCEPT ![r] =
                      IF entry[r] = "endpoint" THEN Http500(e) ELSE Raised(e)]

(* variant: the Critic's call is issued together with the Planner's *)
StartAnalysisParallel(r, title, prefs) ==
    /\ movie_title' = [movie_title EXCEPT ![r] = PyStr(title)]
    /\ preferences' = [preferences EXCEPT ![r] = prefs]
    /\ calls' = [calls EXCEPT ![r] = @ \o <<[agent |-> "planner", genre |-> Unset],
                                            [agent |-> "critic", genre |-> Unset]>>]
    /\ pc' = [pc EXCEPT ![r] = "planner"]

(* analyze_movie is entered: the Planner's call is issued *)
StartAnalysis(r, title, prefs) ==
    /\ movie_title' = [movie_title EXCEPT ![r] = PyStr(title)]
    /\ preferences' = [preferences EXCEPT ![r] = prefs]
    /\ Issue(r, "planner", Unset)

(* POST /api/analyze-movie *)
Receive(r, req) ==
    /\ pc[r] = "idle"
    /\ request' = [request EXCEPT ![r] = req]
    /\ entry' = [entry EXCEPT ![r] = "endpoint"]
    /\ IF Len(req.movie_title) = 0 \/ Len(Strip(req.movie_title)) < 1
       THEN /\ pc' = [pc EXCEPT ![r] = "failed"]
            /\ outcome' = [outcome EXCEPT ![r] = Http400]
            /\ UNCHANGED <<movie_title, preferences, calls>>
       ELSE IF ~EMERGENT_LLM_KEY
       THEN /\ pc' = [pc EXCEPT ![r] = "failed"]
            /\ outcome' = [outcome EXCEPT ![r] = Http500NoKey]
            /\ UNCHANGED <<movie_title, preferences, calls>>
       ELSE /\ StartAnalysis(r, Strip(req.movie_title), PyNone)
            /\ UNCHANGED outcome
    /\ UNCHANGED <<EMERGENT_LLM_KEY, store, plan_data, genre, critic_analysis,
                   sentiment_data, summary, recommendations, captions,
                   personalized_recs, result, responses, warnings>>

(* MultiAgentOrchestrator(api_key).analyze_movie(title, preferences) called by a *)
(* caller other than the endpoint, with the configured key                      *)
Analyze(r, req) ==
    /\ pc[r] = "idle"
    /\ EMERGENT_LLM_KEY
    /\ request' = [request EXCEPT ![r] = req]
    /\ entry' = [entry EXCEPT ![r] = "direct"]
    /\ StartAnalysis(r, req.movie_title, req.preferences)
    /\ UNCHANGED <<EMERGENT_LLM_KEY, store, plan_data, genre, critic_analysis,
                   sentiment_data, summary, recommendations, captions,
                   personalized_recs, result, outcome, responses, warnings>>

(* variant: the genre is a field shared by all requests *)
PlannerReturnSharedGenre(r, text) ==
    /\ pc[r] = "planner"
    /\ Received(r, text)
    /\ plan_data' = [plan_data EXCEPT ![r] = planner_agent(text)]
    /\ LET g == Get(planner_agent(text), "genre", S("Drama"))
       IN  IF g.ok
           THEN /\ genre' = [q \in DOMAIN genre |-> g.val]
                /\ Issue(r, "critic", g.val)
                /\ UNCHANGED outcome
           ELSE /\ Abort(r, g.exc)
                /\ UNCHANGED <<genre, calls>>
    /\ UNCHANGED <<EMERGENT_LLM_KEY, store, entry, request, movie_title, preferences,
                   critic_analysis, sentiment_data, summary, recommendations,
                   captions, personalized_recs, result, warnings>>

(* variant: the Planner is called again when its completion does not parse *)
PlannerReturnRetries(r, text) ==
    /\ pc[r] = "planner"
    /\ Received(r, text)
    /\ plan_data' = [plan_data EXCEPT ![r] = planner_agent(text)]
    /\ LET g == Get(planner_agent(text), "genre", S("Drama"))
       IN  IF ~CleanAndLoad(text).ok
           THEN /\ Issue(r, "planner", Unset)
                /\ UNCHANGED <<genre, outcome>>
           ELSE IF g.ok
           THEN /\ genre' = [genre EXCEPT ![r] = g.val]
                /\ Issue(r, "critic", g.val)
                /\ UNCHANGED outcome
           ELSE /\ Abort(r, g.exc)
                /\ UNCHANGED <<genre, calls>>
    /\ UNCHANGED <<EMERGENT_LLM_KEY, store, entry, request, movie_title, preferences,
                   critic_analysis, sentiment_data, summary, recommendations,
                   captions, personalized_recs, result, warnings>>

(* the Planner's completion arrives; genre = plan_data.get('genre', 'Drama') *)
PlannerReturn(r, text) ==
    /\ pc[r] = "planner"
    /\ Received(r, text)
    /\ plan_data' = [plan_data EXCEPT ![r] = planner_agent(text)]
    /\ LET g == Get(planner_agent(text), "genre", S("Drama"))
       IN  IF g.ok
           THEN /\ genre' = [genre EXCEPT ![r] = g.val]
                /\ Issue(r, "critic", g.val)
                /\ UNCHANGED outcome
           ELSE /\ Abort(r, g.exc)
                /\ UNCHANGED <<genre, calls>>
    /\ UNCHANGED <<EMERGENT_LLM_KEY, store, entry, request, movie_title, preferences,
                   critic_analysis, sentiment_data, summary, recommendations,
                   captions, personalized_recs, result, warnings>>

CriticReturn(r, text) ==
    /\ pc[r] = "critic"
    /\ Received(r, text)
    /\ critic_analysis' = [critic_analysis EXCEPT ![r] = critic_agent(text)]
    /\ Issue(r, "sentiment", Unset)
    /\ UNCHANGED <<EMERGENT_LLM_KEY, store, entry, request, movie_title, preferences,
                   plan_data, genre, sentiment_data, summary, recommendations,
                   captions, personalized_recs, result, outcome, warnings>>

SentimentReturn(r, text) ==
    /\ pc[r] = "sentiment"
    /\ Received(r, text)
    /\ sentiment_data' = [sentiment_data EXCEPT ![r] = sentiment_agent(text)]
    /\ Issue(r, "summary", genre[r])
    /\ UNCHANGED <<EMERGENT_LLM_KEY, store, entry, request, movie_title, preferences,
                   plan_data, genre, critic_analysis, summary, recommendations,
                   captions, personalized_recs, result, outcome, warnings>>

SummaryReturn(r, text) ==
    /\ pc[r] = "summary"
    /\ Received(r, text)
    /\ summary' = [summary EXCEPT ![r] = summary_agent(text)]
    /\ Issue(r, "recommendation", genre[r])
    /\ UNCHANGED <<EMERGENT_LLM_KEY, store, entry, request, movie_title, preferences,
                   plan_data, genre, critic_analysis, sentiment_data, recommendations,
                   captions, personalized_recs, result, outcome, warnings>>

RecommendationReturn(r, text) ==
    /\ pc[r] = "recommendation"
    /\ Received(r, text)
    /\ recommendations' = [recommendations EXCEPT ![r] = recommendation_agent(text)]
    /\ Issue(r, "social", genre[r])
    /\ UNCHANGED <<EMERGENT_LLM_KEY, store, entry, request, movie_title, preferences,
                   plan_data, genre, critic_analysis, sentiment_data, summary,
                   captions, personalized_recs, result, outcome, warnings>>

(* variant: the draft reports the default genre *)
AssembleDefaultGenre(r, overall, analysis, caps, precs) ==
    [movie_title |-> movie_title[r],
     genre |-> S("Drama"),
     overall_sentiment |-> overall,
     critic_analysis |-> critic_analysis[r],
     audience_sentiment |-> analysis,
     summary |-> summary[r],
     recommendations |-> recommendations[r],
     personalized_recommendations |-> precs,
     instagram_captions |-> caps]

(* the draft assembled by analyze_movie *)
Assemble(r, overall, analysis, caps, precs) ==
    [movie_title |-> movie_title[r],
     genre |-> genre[r],
     overall_sentiment |-> overall,
     critic_analysis |-> critic_analysis[r],
     audience_sentiment |-> analysis,
     summary |-> summary[r],
     recommendations |-> recommendations[r],
     personalized_recommendations |-> precs,
     instagram_captions |-> caps]

(* the rest of analyze_movie once every agent has returned: assemble, validate,   *)
(* return; then, at the endpoint, build the response and issue the insert.       *)
(* validated_result is the one value validator_agent returned.                   *)
Finish(r, caps, precs) ==
    LET overall == Get(sentiment_data[r], "overall", S("Mixed"))
        analysis == Get(sentiment_data[r], "analysis", PyStr(<<>>))
    IN  /\ personalized_recs' = [personalized_recs EXCEPT ![r] = precs]
        /\ IF ~overall.ok
           THEN Abort(r, overall.exc) /\ UNCHANGED <<result, warnings>>
           ELSE \E validated \in
                    {validator_agent(Assemble(r, overall.val, analysis.val, caps, precs))} :
                IF ~validated.ok
                THEN Abort(r, validated.exc) /\ UNCHANGED <<result, warnings>>
                ELSE /\ result' = [result EXCEPT ![r] = validated.val.data]
                     /\ warnings' = [warnings EXCEPT ![r] = validated.val.warned]
                     /\ IF entry[r] = "direct"
                        THEN /\ pc' = [pc EXCEPT ![r] = "done"]
                             /\ outcome' = [outcome EXCEPT ![r] =
                                               Returned(validated.val.data)]
                        ELSE IF ~ValidResponse(validated.val.data)
                        THEN Abort(r, "ValidationError")
                        ELSE /\ pc' = [pc EXCEPT ![r] = "insert"]
                             /\ UNCHANGED outcome

SocialReturn(r, text) ==
    /\ pc[r] = "social"
    /\ Received(r, text)
    /\ \E caps \in {social_media_agent(movie_title[r].s, text)} :
           /\ captions' = [captions EXCEPT ![r] = caps]
           /\ IF Truthy(preferences[r]) /\ ~NoPersonalization(preferences[r])
              THEN /\ Issue(r, "personalized", genre[r])
                   /\ UNCHANGED <<personalized_recs, result, outcome, warnings>>
              ELSE /\ Finish(r, caps, PyList(<<>>))
                   /\ UNCHANGED calls
    /\ UNCHANGED <<EMERGENT_LLM_KEY, store, entry, request, movie_title, preferences,
                   plan_data, genre, critic_analysis, sentiment_data, summary,
                   recommendations>>

PersonalizedReturn(r, text) ==
    /\ pc[r] = "personalized"
    /\ Received(r, text)
    /\ Finish(r, captions[r], personalized_recommendation_agent(text))
    /\ UNCHANGED <<EMERGENT_LLM_KEY, store, entry, request, movie_title, preferences,
                   plan_data, genre, critic_analysis, sentiment_data, summary,
                   recommendations, captions, calls>>

(* the Generation Port call in flight fails: the exception propagates *)
GenerationFails(r) ==
    /\ pc[r] \in GenStages
    /\ Abort(r, "GenerationError")
    /\ UNCHANGED <<EMERGENT_LLM_KEY, store, entry, request, movie_title, preferences,
                   plan_data, genre, critic_analysis, sentiment_data, summary,
                   recommendations, captions, personalized_recs, result, calls,
                   responses, warnings>>

(* variant: the response is returned without the insert *)
InsertReturnSkipsStore(r) ==
    /\ pc[r] = "insert"
    /\ outcome' = [outcome EXCEPT ![r] = Http200(MovieAnalysisResponse(r, result[r]))]
    /\ pc' = [pc EXCEPT ![r] = "done"]
    /\ UNCHANGED <<EMERGENT_LLM_KEY, store, entry, request, movie_title, preferences,
                   plan_data, genre, critic_analysis, sentiment_data, summary,
                   recommendations, captions, personalized_recs, result, calls,
                   responses, warnings>>

(* db.movie_analyses.insert_one(doc) completes; the response is returned *)
InsertReturn(r) ==
    /\ pc[r] = "insert"
    /\ store' = Append(store, MovieAnalysisResponse(r, result[r]))
    /\ outcome' = [outcome EXCEPT ![r] = Http200(MovieAnalysisResponse(r, result[r]))]
    /\ pc' = [pc EXCEPT ![r] = "done"]
    /\ UNCHANGED <<EMERGENT_LLM_KEY, entry, request, movie_title, preferences,
                   plan_data, genre, critic_analysis, sentiment_data, summary,
                   recommendations, captions, personalized_recs, result, calls,
                   responses, warnings>>

(* variant: the insert fails after the document was written *)
InsertFailsAfterWrite(r) ==
    /\ pc[r] = "insert"
    /\ store' = Append(store, MovieAnalysisResponse(r, result[r]))
    /\ Abort(r, "InsertError")
    /\ UNCHANGED <<EMERGENT_LLM_KEY, entry, request, movie_title, preferences,
                   plan_data, genre, critic_analysis, sentiment_data, summary,
                   recommendations, captions, personalized_recs, result, calls,
                   responses, warnings>>

InsertFails(r) ==
    /\ pc[r] = "insert"
    /\ Abort(r, "InsertError")
    /\ UNCHANGED <<EMERGENT_LLM_KEY, store, entry, request, movie_title, preferences,
                   plan_data, genre, critic_analysis, sentiment_data, summary,
                   recommendations, captions, personalized_recs, result, calls,
                   responses, warnings>>

-----------------------------------------------------------------------------
(* Inputs: requests, and the completions the Generation Port may return *)

ManyItems == 20

Inception == <<Word("Inception")>>

Titles == {<<>>, <<Ws>>, <<Ws>> \o Inception \o <<Ws>>}

EmptyPreferences ==
    PyDict([favorite_genres |-> PyList(<<>>), favorite_languages |-> PyList(<<>>),
            favorite_movies |-> PyList(<<>>), current_mood |-> PyNone])

GenrePreferences ==
    PyDict([favorite_genres |-> PyList(<<S("Action"), S("Sci-Fi")>>),
            favorite_languages |-> PyList(<<>>),
            favorite_movies |-> PyList(<<S("The Matrix")>>), current_mood |-> PyNone])

MoodPreferences == PyDict([current_mood |-> S("adventurous")])

PreferenceValues ==
    {PyNone, PyDict(<<>>), EmptyPreferences, GenrePreferences, MoodPreferences}

(* UserPreferences as the endpoint receives them *)
Requests == [movie_title : Titles,
             preferences : {PyNone, EmptyPreferences, GenrePreferences}]

DirectRequests == [movie_title : {Inception}, preferences : PreferenceValues]

SciFiPlan == PyDict([genre |-> S("Sci-Fi"), year |-> S("1999"), type |-> S("Movie")])

PlannerTexts ==
    {<<Ws, Json(SciFiPlan), Ws>>,
     <<Fence, Word("json"), Ws, Json(SciFiPlan), Ws, Fence>>,
     <<Json(PyDict([year |-> S("2010")]))>>,
     <<Json(PyDict([genre |-> PyNum(7)]))>>,
     <<Word("Here is the metadata: "), Json(SciFiPlan)>>,
     <<Word("I do not know this title.")>>,
     <<Json(PyList(<<>>))>>}

CriticTexts ==
    {<<Word("Taut and inventive, great until the "), Word("Ending"), Word(".")>>}

SentimentTexts ==
    {<<Json(PyDict([overall |-> S("Positive"), analysis |-> S("Audiences loved it.")]))>>,
     <<Word("Audiences were split.")>>,
     <<Json(PyDict([overall |-> S("Negative"), analysis |-> PyNum(3)]))>>,
     <<Json(PyList(<<S("Positive")>>))>>}

SummaryTexts ==
    {<<Word("A thief steals secrets from inside dreams.")>>}

Rec(i) ==
    PyDict([title |-> PyStr(<<Word("Movie "), Num(i)>>),
            reason |-> S("Similar tone and themes.")])

RecList(n) == PyList([i \in 1..n |-> Rec(i)])

RecommendationTexts ==
    {<<Json(RecList(MaxRecommendations))>>,
     <<Json(RecList(ManyItems))>>,
     <<Json(PyList(<<>>))>>,
     <<Json(S("Watch Interstellar."))>>,
     <<Json(PyList(<<S("Interstellar"), S("Tenet")>>))>>,
     <<Word("You might enjoy Interstellar.")>>}

Caption(i) == PyStr(<<Word("Mind-bending! #Inception "), Num(i)>>)

CaptionList(n) == PyList([i \in 1..n |-> Caption(i)])

SocialTexts ==
    {<<Json(CaptionList(MaxCaptions))>>,
     <<Json(CaptionList(ManyItems))>>,
     <<Json(PyList(<<>>))>>,
     <<Json(PyDict([captions |-> CaptionList(MaxCaptions)]))>>,
     <<Word("1. Mind-bending!")>>}

PersonalizedTexts ==
    {<<Json(RecList(MaxRecommendations))>>,
     <<Json(RecList(ManyItems))>>,
     <<Json(S("Watch The Matrix."))>>,
     <<Word("No idea.")>>}

-----------------------------------------------------------------------------
(* Specification: one request at a time, every kind of completion *)

InitWith(n) ==
    /\ EMERGENT_LLM_KEY \in BOOLEAN
    /\ store = <<>>
    /\ pc = [r \in 1..n |-> "idle"]
    /\ entry = [r \in 1..n |-> "none"]
    /\ request = [r \in 1..n |-> Unset]
    /\ movie_title = [r \in 1..n |-> Unset]
    /\ preferences = [r \in 1..n |-> Unset]
    /\ plan_data = [r \in 1..n |-> Unset]
    /\ genre = [r \in 1..n |-> Unset]
    /\ critic_analysis = [r \in 1..n |-> Unset]
    /\ sentiment_data = [r \in 1..n |-> Unset]
    /\ summary = [r \in 1..n |-> Unset]
    /\ recommendations = [r \in 1..n |-> Unset]
    /\ captions = [r \in 1..n |-> Unset]
    /\ personalized_recs = [r \in 1..n |-> Unset]
    /\ result = [r \in 1..n |-> Unset]
    /\ outcome = [r \in 1..n |-> Unset]
    /\ calls = [r \in 1..n |-> <<>>]
    /\ responses = [r \in 1..n |-> <<>>]
    /\ warnings = [r \in 1..n |-> {}]

Init == InitWith(1)

Next ==
    \/ \E r \in DOMAIN pc, req \in Requests : Receive(r, req)
    \/ \E r \in DOMAIN pc, req \in DirectRequests : Analyze(r, req)
    \/ \E r \in DOMAIN pc, text \in PlannerTexts : PlannerReturn(r, text)
    \/ \E r \in DOMAIN pc, text \in CriticTexts : CriticReturn(r, text)
    \/ \E r \in DOMAIN pc, text \in SentimentTexts : SentimentReturn(r, text)
    \/ \E r \in DOMAIN pc, text \in SummaryTexts : SummaryReturn(r, text)
    \/ \E r \in DOMAIN pc, text \in RecommendationTexts : RecommendationReturn(r, text)
    \/ \E r \in DOMAIN pc, text \in SocialTexts : SocialReturn(r, text)
    \/ \E r \in DOMAIN pc, text \in PersonalizedTexts : PersonalizedReturn(r, text)
    \/ \E r \in DOMAIN pc : GenerationFails(r)
    \/ \E r \in DOMAIN pc : InsertReturn(r)
    \/ \E r \in DOMAIN pc : InsertFails(r)

Spec == Init /\ [][Next]_vars

-----------------------------------------------------------------------------
(* Specification: the endpoint serving several requests, their tasks interleaved *)
(* at the suspension points; all of them share the store                         *)

NumRequests == 2

ConcRequests == [movie_title : {<<Ws>>, Inception}, preferences : {PyNone}]

ConcPlannerTexts ==
    {<<Ws, Json(SciFiPlan), Ws>>, <<Json(PyDict([year |-> S("2010")]))>>,
     <<Json(PyList(<<>>))>>}

ConcSentimentTexts ==
    {<<Json(PyDict([overall |-> S("Positive"), analysis |-> S("Audiences loved it.")]))>>}

ConcRecommendationTexts ==
    {<<Json(RecList(MaxRecommendations))>>,
     <<Json(PyList(<<S("Interstellar"), S("Tenet")>>))>>}

ConcSocialTexts == {<<Json(CaptionList(MaxCaptions))>>}

InitConc == InitWith(NumRequests)

NextConc ==
    \/ \E r \in DOMAIN pc, req \in ConcRequests : Receive(r, req)
    \/ \E r \in DOMAIN pc, text \in ConcPlannerTexts : PlannerReturn(r, text)
    \/ \E r \in DOMAIN pc, text \in CriticTexts : CriticReturn(r, text)
    \/ \E r \in DOMAIN pc, text \in ConcSentimentTexts : SentimentReturn(r, text)
    \/ \E r \in DOMAIN pc, text \in SummaryTexts : SummaryReturn(r, text)
    \/ \E r \in DOMAIN pc, text \in ConcRecommendationTexts : RecommendationReturn(r, text)
    \/ \E r \in DOMAIN pc, text \in ConcSocialTexts : SocialReturn(r, text)
    \/ \E r \in DOMAIN pc : GenerationFails(r)
    \/ \E r \in DOMAIN pc : InsertReturn(r)
    \/ \E r \in DOMAIN pc : InsertFails(r)

SpecConc == InitConc /\ [][NextConc]_vars

-----------------------------------------------------------------------------
(* Specification: one direct run whose Planner completion ranges over every     *)
(* wrapping of a JSON text: bare or inside a fenced block, with or without the  *)
(* language tag, with or without whitespace around each part                    *)

(* a plan whose genre string holds the fence marker *)
FencePlan ==
    PyDict([genre |-> PyStr(<<Word("Sci-Fi "), Fence, Word("noir")>>),
            year |-> S("1999"), type |-> S("Movie")])

JsonValues ==
    {SciFiPlan, FencePlan, PyDict([year |-> S("2010")]),
     PyList(<<PyList(<<SciFiPlan>>)>>), S("Drama")}

ContainsFence(v) ==
    /\ v.kind = "dict"
    /\ \E k \in DOMAIN v.d :
           v.d[k].kind = "str" /\ \E i \in 1..Len(v.d[k].s) : v.d[k].s[i] = Fence

(* the JSON text of a value *)
JsonText(v) == IF ContainsFence(v) THEN <<JsonHead(v), Fence, JsonTail(v)>> ELSE <<Json(v)>>

Gaps == {<<>>, <<Ws>>}

Tags == {<<>>, <<Word("json")>>}

Padded(J, pre, post) == pre \o J \o post

Fenced(J, pre, tag, before, after, post) ==
    pre \o <<Fence>> \o tag \o before \o J \o after \o <<Fence>> \o post

ExtractTexts ==
    {Padded(JsonText(v), pre, post) : v \in JsonValues, pre \in Gaps, post \in Gaps}
    \cup {Fenced(JsonText(v), pre, tag, before, after, post) :
              v \in JsonValues, pre \in Gaps, tag \in Tags, before \in Gaps,
              after \in Gaps, post \in Gaps}
    \cup {<<Word("I do not know this title.")>>}

ExtractRequests == [movie_title : {Inception}, preferences : {PyNone}]

InitExtract == InitWith(1) /\ EMERGENT_LLM_KEY

NextExtract ==
    \/ \E r \in DOMAIN pc, req \in ExtractRequests : Analyze(r, req)
    \/ \E r \in DOMAIN pc, text \in ExtractTexts : PlannerReturn(r, text)
    \/ \E r \in DOMAIN pc, text \in CriticTexts : CriticReturn(r, text)
    \/ \E r \in DOMAIN pc, text \in ConcSentimentTexts : SentimentReturn(r, text)
    \/ \E r \in DOMAIN pc, text \in SummaryTexts : SummaryReturn(r, text)
    \/ \E r \in DOMAIN pc, text \in ConcRecommendationTexts : RecommendationReturn(r, text)
    \/ \E r \in DOMAIN pc, text \in ConcSocialTexts : SocialReturn(r, text)
    \/ \E r \in DOMAIN pc : GenerationFails(r)

SpecExtract == InitExtract /\ [][NextExtract]_vars

-----------------------------------------------------------------------------
(* Specification: one direct run whose Recommendation and Social completions    *)
(* range over lists of every length up to MaxListLen and over values that are   *)
(* no list, so that validator_agent is applied to every such draft              *)

MaxListLen == 7

ValidateRequests == [movie_title : {Inception}, preferences : {PyNone, MoodPreferences}]

ValidatePlannerTexts == {<<Ws, Json(SciFiPlan), Ws>>}

ValidateRecommendationTexts ==
    {<<Json(RecList(n))>> : n \in 0..MaxListLen}
    \cup {<<Json(S("Watch Interstellar."))>>, <<Json(PyDict([items |-> RecList(2)]))>>}

ValidateSocialTexts ==
    {<<Json(CaptionList(n))>> : n \in 0..MaxListLen}
    \cup {<<Json(PyNum(3))>>, <<Json(PyDict([captions |-> CaptionList(MaxCaptions)]))>>}

InitValidate == InitWith(1) /\ EMERGENT_LLM_KEY

NextValidate ==
    \/ \E r \in DOMAIN pc, req \in ValidateRequests : Analyze(r, req)
    \/ \E r \in DOMAIN pc, text \in ValidatePlannerTexts : PlannerReturn(r, text)
    \/ \E r \in DOMAIN pc, text \in CriticTexts : CriticReturn(r, text)
    \/ \E r \in DOMAIN pc, text \in ConcSentimentTexts : SentimentReturn(r, text)
    \/ \E r \in DOMAIN pc, text \in SummaryTexts : SummaryReturn(r, text)
    \/ \E r \in DOMAIN pc, text \in ValidateRecommendationTexts : RecommendationReturn(r, text)
    \/ \E r \in DOMAIN pc, text \in ValidateSocialTexts : SocialReturn(r, text)
    \/ \E r \in DOMAIN pc, text \in PersonalizedTexts : PersonalizedReturn(r, text)
    \/ \E r \in DOMAIN pc : GenerationFails(r)

SpecValidate == InitValidate /\ [][NextValidate]_vars

-----------------------------------------------------------------------------
(* Specification: one request, at the endpoint or direct, every call in flight  *)
(* and the insert eventually returning or failing                               *)

LivePlannerTexts == ConcPlannerTexts \cup {<<Word("I do not know this title.")>>}

LivePersonalizedTexts == {<<Json(RecList(2))>>, <<Word("No idea.")>>}

(* the steps by which the call or the insert that request r waits for returns   *)
(* or fails                                                                     *)
Pending(r) ==
    \/ \E text \in LivePlannerTexts : PlannerReturn(r, text)
    \/ \E text \in CriticTexts : CriticReturn(r, text)
    \/ \E text \in ConcSentimentTexts : SentimentReturn(r, text)
    \/ \E text \in SummaryTexts : SummaryReturn(r, text)
    \/ \E text \in ConcRecommendationTexts : RecommendationReturn(r, text)
    \/ \E text \in ConcSocialTexts : SocialReturn(r, text)
    \/ \E text \in LivePersonalizedTexts : PersonalizedReturn(r, text)
    \/ GenerationFails(r)
    \/ InsertReturn(r)
    \/ InsertFails(r)

LiveRuns == 1..1

NextLive ==
    \/ \E r \in DOMAIN pc, req \in Requests : Receive(r, req)
    \/ \E r \in DOMAIN pc, req \in DirectRequests : Analyze(r, req)
    \/ \E r \in DOMAIN pc, text \in LivePlannerTexts : PlannerReturn(r, text)
    \/ \E r \in DOMAIN pc, text \in CriticTexts : CriticReturn(r, text)
    \/ \E r \in DOMAIN pc, text \in ConcSentimentTexts : SentimentReturn(r, text)
    \/ \E r \in DOMAIN pc, text \in SummaryTexts : SummaryReturn(r, text)
    \/ \E r \in DOMAIN pc, text \in ConcRecommendationTexts : RecommendationReturn(r, text)
    \/ \E r \in DOMAIN pc, text \in ConcSocialTexts : SocialReturn(r, text)
    \/ \E r \in DOMAIN pc, text \in LivePersonalizedTexts : PersonalizedReturn(r, text)
    \/ \E r \in DOMAIN pc : GenerationFails(r)
    \/ \E r \in DOMAIN pc : InsertReturn(r)
    \/ \E r \in DOMAIN pc : InsertFails(r)

SpecLive == Init /\ [][NextLive]_vars /\ \A r \in LiveRuns : WF_vars(Pending(r))

-----------------------------------------------------------------------------
(* Properties *)

HasResult(r) == result[r] # Unset

EntriesAtMost(v, n) == v.kind = "list" /\ Len(v.items) <= n

(* "meaningful preferences": at least one of the four fields is non-empty *)
Meaningful(p) ==
    /\ p.kind = "dict"
    /\ \E k \in PreferenceKeys \cap DOMAIN p.d : Truthy(p.d[k])

Called(r, agent) == \E i \in 1..Len(calls[r]) : calls[r][i].agent = agent

Stored(r) == \E i \in 1..Len(store) : store[i].id = r

(* C1: whatever the agents' completions were, the result analyze_movie returns   *)
(* has at most 5 recommendations and at most 3 instagram captions.               *)
C1_ListsCapped ==
    \A r \in DOMAIN pc :
        HasResult(r) =>
            /\ EntriesAtMost(result[r].recommendations, 5)
            /\ EntriesAtMost(result[r].instagram_captions, 3)

C1_Witness ==
    \E r \in DOMAIN pc :
        /\ HasResult(r)
        /\ recommendations[r].kind = "list" /\ Len(recommendations[r].items) = ManyItems
        /\ captions[r].kind = "list" /\ Len(captions[r].items) = ManyItems

(* C2: the result analyze_movie returns has at most 5 personalized               *)
(* recommendations, whatever the Personalized Recommendation completion was.     *)
C2_PersonalizedCapped ==
    \A r \in DOMAIN pc :
        HasResult(r) => EntriesAtMost(result[r].personalized_recommendations, 5)

(* C3: when the preferences are absent, or all four fields are empty or unset,   *)
(* the result of analyze has an empty personalized_recommendations.              *)
C3_NoPreferencesNoPersonalized ==
    \A r \in DOMAIN pc :
        (HasResult(r) /\ ~Meaningful(request[r].preferences)) =>
            result[r].personalized_recommendations = PyList(<<>>)

C3_Witness ==
    \E r \in DOMAIN pc :
        /\ HasResult(r)
        /\ entry[r] = "direct"
        /\ request[r].preferences = EmptyPreferences
        /\ result[r].personalized_recommendations = PyList(<<>>)

(* C4: a request to the endpoint with meaningful preferences has the             *)
(* Personalized Recommendation agent invoked with those preferences.             *)
C4_EndpointPersonalizes ==
    \A r \in DOMAIN pc :
        (entry[r] = "endpoint" /\ pc[r] = "done" /\ Meaningful(request[r].preferences)) =>
            /\ preferences[r] = request[r].preferences
            /\ Called(r, "personalized")

GenerationFailed(r) ==
    \/ outcome[r] = Http500("GenerationError")
    \/ outcome[r] = Raised("GenerationError")

(* C5: once a Generation Port call has failed, the run is abandoned: the failed  *)
(* call is the last one issued, nothing is stored for the request, and the       *)
(* caller has an error and no result.                                            *)
C5_FailureAbandonsRun ==
    \A r \in DOMAIN pc :
        GenerationFailed(r) =>
            /\ pc[r] = "failed"
            /\ Len(calls[r]) = Len(responses[r]) + 1
            /\ ~Stored(r)
            /\ result[r] = Unset

C5_Witness ==
    \E r \in DOMAIN pc :
        /\ GenerationFailed(r)
        /\ entry[r] = "endpoint"
        /\ calls[r][Len(calls[r])].agent = "summary"

Completed(r) == outcome[r].kind = "http" /\ outcome[r].status = 200

(* C6: however the requests interleave, the store holds exactly one document per *)
(* request that completed successfully, and none for any other request.          *)
C6_OneInsertPerCompletion ==
    /\ Len(store) = Cardinality({r \in DOMAIN pc : Completed(r)})
    /\ \A r \in DOMAIN pc :
          Cardinality({i \in 1..Len(store) : store[i].id = r}) = IF Completed(r) THEN 1 ELSE 0

C6_Witness ==
    /\ Len(store) = 1
    /\ \E r \in DOMAIN pc : Completed(r) /\ store[1].id = r
    /\ \E r \in DOMAIN pc : outcome[r] = Http500("InsertError")

AnalysisFailed(r) ==
    \/ outcome[r].kind = "raised"
    \/ outcome[r].kind = "http" /\ outcome[r].status = 500
                                /\ outcome[r].detail = "Analysis failed"

(* C7: the shape of a completion never makes a request fail: an analysis fails   *)
(* only because a Generation Port call (or the insert) failed.                   *)
C7_ShapeNeverSurfaces ==
    \A r \in DOMAIN pc :
        AnalysisFailed(r) => outcome[r].exc \in {"GenerationError", "InsertError"}

Blank(title) == \A i \in 1..Len(title) : title[i] = Ws

(* C8: a request with an empty or whitespace-only title gets the 400 response;   *)
(* no Generation Port call is made and nothing is stored for it.                 *)
C8_BlankTitleRejected ==
    \A r \in DOMAIN pc :
        (entry[r] = "endpoint" /\ Blank(request[r].movie_title)) =>
            /\ outcome[r] = Http400
            /\ calls[r] = <<>>
            /\ ~Stored(r)

C8_Witness ==
    \E r \in DOMAIN pc :
        /\ entry[r] = "endpoint"
        /\ request[r].movie_title = <<Ws>>
        /\ outcome[r] = Http400

(* a completion that is one JSON value, with whitespace around it at most *)
WellFormedJson(text) ==
    \E i \in 1..Len(text) :
        /\ text[i].tok = "val"
        /\ \A j \in 1..Len(text) : j # i => text[j] = Ws

JsonValue(text) == (CHOOSE i \in 1..Len(text) : text[i].tok = "val")

HasGenre(text) ==
    /\ WellFormedJson(text)
    /\ text[JsonValue(text)].val.kind = "dict"
    /\ "genre" \in DOMAIN text[JsonValue(text)].val.d

GenreOf(text) == text[JsonValue(text)].val.d["genre"]

(* C9: when the Planner's completion is well-formed JSON with a genre field,     *)
(* the genre threaded through the run, passed to the later agents and reported   *)
(* in the result is that field.                                                  *)
C9_GenreFromPlanner ==
    \A r \in DOMAIN pc :
        (Len(responses[r]) >= 1 /\ HasGenre(responses[r][1])) =>
            /\ genre[r] = GenreOf(responses[r][1])
            /\ calls[r][2] = [agent |-> "critic", genre |-> GenreOf(responses[r][1])]
            /\ HasResult(r) => result[r].genre = GenreOf(responses[r][1])

C9_Witness ==
    \E r \in DOMAIN pc :
        /\ HasResult(r)
        /\ responses[r][1] = <<Ws, Json(SciFiPlan), Ws>>
        /\ result[r].genre = S("Sci-Fi")

(* a fenced block holding one JSON value, with or without the language tag *)
FencedJson(text) ==
    \E i \in 1..Len(text) :
        /\ text[i].tok = "val"
        /\ \E f \in 1..(i - 1) :
              /\ text[f] = Fence
              /\ \A j \in 1..(f - 1) : text[j] = Ws
              /\ \A j \in (f + 1)..(i - 1) : text[j] = Ws \/ (j = f + 1 /\ text[j] = Word("json"))
        /\ \A j \in (i + 1)..Len(text) : text[j] = Ws \/ text[j] = Fence

Malformed(text) == ~WellFormedJson(text) /\ ~FencedJson(text)

(* C10: when the Planner's completion is malformed or is not JSON, the run goes  *)
(* on to the Critic and the genre threaded and reported is "Drama".              *)
C10_GenreDefaultsToDrama ==
    \A r \in DOMAIN pc :
        (Len(responses[r]) >= 1 /\ Malformed(responses[r][1])) =>
            /\ genre[r] = S("Drama")
            /\ calls[r][2] = [agent |-> "critic", genre |-> S("Drama")]
            /\ HasResult(r) => result[r].genre = S("Drama")

C10_Witness ==
    \E r \in DOMAIN pc :
        /\ HasResult(r)
        /\ responses[r][1] = <<Word("Here is the metadata: "), Json(SciFiPlan)>>
        /\ result[r].genre = S("Drama")

(* C11: a JSON-shaped agent returns a value of its shape (an object for the      *)
(* Planner and the Sentiment agent, a list for the Recommendation, Social and    *)
(* Personalized agents) or else exactly its default.                             *)
C11_ShapeOrDefault ==
    \A r \in DOMAIN pc :
        /\ plan_data[r] # Unset =>
              plan_data[r].kind = "dict" \/ plan_data[r] = PlannerDefault
        /\ sentiment_data[r] # Unset =>
              sentiment_data[r].kind = "dict" \/ sentiment_data[r] = SentimentDefault
        /\ recommendations[r] # Unset =>
              recommendations[r].kind = "list" \/ recommendations[r] = RecommendationDefault
        /\ captions[r] # Unset =>
              captions[r].kind = "list" \/ captions[r] = SocialDefault(movie_title[r].s)
        /\ personalized_recs[r] # Unset =>
              personalized_recs[r].kind = "list" \/ personalized_recs[r] = PyList(<<>>)

(* every call of the run has returned and the last agent has run *)
AllReturned(r) == Len(responses[r]) = Len(calls[r]) /\ Called(r, "social")

(* the Sentiment agent's value lets the draft reach the end of the validator *)
SentimentUsable(r) ==
    /\ sentiment_data[r].kind = "dict"
    /\ Get(sentiment_data[r], "analysis", PyStr(<<>>)).val.kind = "str"

(* C12: when the Recommendation agent returned a string and no list, the result  *)
(* of the run has the empty list as recommendations, and the run returns that    *)
(* result once every call has returned (the string makes no step fail).          *)
C12_BareStringBecomesEmpty ==
    \A r \in DOMAIN pc :
        recommendations[r].kind = "str" =>
            /\ pc[r] # "recommendation"
            /\ HasResult(r) => result[r].recommendations = PyList(<<>>)
            /\ (AllReturned(r) /\ SentimentUsable(r)) => HasResult(r)
            /\ Completed(r) => outcome[r].body.recommendations = PyList(<<>>)

C12_Witness ==
    \E r \in DOMAIN pc :
        /\ Completed(r)
        /\ responses[r][5] = <<Json(S("Watch Interstellar."))>>
        /\ recommendations[r] = S("Watch Interstellar.")
        /\ outcome[r].body.recommendations = PyList(<<>>)

(* a completion that is JSON (bare or fenced) for an empty list or for a value   *)
(* that is no list                                                               *)
EmptyOrNoList(text) ==
    /\ WellFormedJson(text) \/ FencedJson(text)
    /\ LET v == text[JsonValue(text)].val
       IN  v.kind # "list" \/ v.items = <<>>

NonEmptyList(v) == v.kind = "list" /\ Len(v.items) > 0

C14_ValidatorNeverFails ==
    \A r \in DOMAIN pc :
        (AllReturned(r) /\ sentiment_data[r].kind = "dict") =>
            /\ HasResult(r)
            /\ IsRecommendationList(result[r].recommendations)
            /\ EntriesAtMost(result[r].recommendations, MaxRecommendations)
            /\ IsStrList(result[r].instagram_captions)
            /\ EntriesAtMost(result[r].instagram_captions, MaxCaptions)

(* C15: a run that returned its result made exactly 6 Generation Port calls when *)
(* the preferences analyze_movie was given are absent or have all four fields    *)
(* empty, none of them by the Personalized agent, and exactly 7 otherwise.       *)
C15_SixOrSevenCalls ==
    \A r \in DOMAIN pc :
        /\ ~Meaningful(preferences[r]) => ~Called(r, "personalized")
        /\ HasResult(r) =>
              Len(calls[r]) = IF Meaningful(preferences[r]) THEN 7 ELSE 6

C15_Witness ==
    \E r \in DOMAIN pc :
        /\ HasResult(r)
        /\ preferences[r] = EmptyPreferences
        /\ Len(calls[r]) = 6
        /\ ~Called(r, "personalized")

ReceivedWithoutKey(r) ==
    entry[r] = "endpoint" /\ ~EMERGENT_LLM_KEY /\ ~Blank(request[r].movie_title)

(* C17 as stated: a request received while the key is missing makes no           *)
(* Generation Port call and no insert, and its error is of another kind (HTTP    *)
(* status) than the error of a failure in the middle of the pipeline.            *)
C17_NoKeyOtherStatus ==
    \A r \in DOMAIN pc :
        (entry[r] = "endpoint" /\ ~EMERGENT_LLM_KEY) =>
            /\ calls[r] = <<>>
            /\ ~Stored(r)
            /\ outcome[r].status # Http500("GenerationError").status

(* C17: a request with a usable title received while the key is missing makes no *)
(* Generation Port call and no insert; its error has the status 500 of a failure *)
(* in the middle of the pipeline and differs from it by its detail only.         *)
C17_NoKeyOtherDetail ==
    \A r \in DOMAIN pc :
        /\ ReceivedWithoutKey(r) =>
              /\ pc[r] = "failed"
              /\ calls[r] = <<>> /\ responses[r] = <<>>
              /\ ~Stored(r) /\ ~HasResult(r)
              /\ outcome[r] = Http500NoKey
              /\ outcome[r].status = Http500("GenerationError").status
              /\ outcome[r].detail # Http500("GenerationError").detail
        /\ AnalysisFailed(r) => EMERGENT_LLM_KEY /\ Called(r, "planner")

C17_Witness ==
    \E r \in DOMAIN pc :
        /\ ReceivedWithoutKey(r)
        /\ request[r].preferences = GenrePreferences
        /\ outcome[r] = Http500NoKey

(* C18: extraction from a JSON text inside a fenced block, with or without the   *)
(* language tag and with or without whitespace around each part, gives what      *)
(* extraction from the bare JSON text gives; a fenced plan of genre Sci-Fi gives *)
(* the genre Sci-Fi.                                                             *)
C18_FencedSameAsBare ==
    \A r \in DOMAIN pc :
        \A v \in JsonValues, pre \in Gaps, tag \in Tags, before \in Gaps,
           after \in Gaps, post \in Gaps :
            (/\ plan_data[r] # Unset
             /\ responses[r][1] = Fenced(JsonText(v), pre, tag, before, after, post)) =>
                /\ plan_data[r] = planner_agent(JsonText(v))
                /\ v = SciFiPlan => genre[r] = S("Sci-Fi")

(* a completion that is JSON text and nothing else, whitespace around it at most *)
CleanJson(text) ==
    \E v \in JsonValues, pre \in Gaps, post \in Gaps : text = Padded(JsonText(v), pre, post)

StageOrder ==
    <<"planner", "critic", "sentiment", "summary", "recommendation", "social",
      "personalized">>

(* C20: within a run the Generation Port calls are issued in the order Planner,  *)
(* Critic, Sentiment, Summary, Recommendation, Social and then Personalized if   *)
(* it runs; a call is issued only when every earlier call has returned, so at    *)
(* most one is in flight; and the validator's result exists only when every call *)
(* of the run has returned.                                                      *)
C20_StagesInOrder ==
    \A r \in DOMAIN pc :
        /\ Len(calls[r]) <= Len(StageOrder)
        /\ \A i \in 1..Len(calls[r]) : calls[r][i].agent = StageOrder[i]
        /\ Len(responses[r]) <= Len(calls[r])
        /\ Len(calls[r]) <= Len(responses[r]) + 1
        /\ pc[r] \in GenStages =>
              /\ Len(calls[r]) = Len(responses[r]) + 1
              /\ calls[r][Len(calls[r])].agent = pc[r]
        /\ HasResult(r) =>
              /\ Len(responses[r]) = Len(calls[r])
              /\ Called(r, "social")

C20_Witness ==
    \E r \in DOMAIN pc :
        /\ HasResult(r)
        /\ Len(calls[r]) = Len(StageOrder)
        /\ Len(responses[r]) = Len(StageOrder)

GenreStages == {"critic", "summary", "recommendation", "social", "personalized"}

(* C21: the genre set when the Planner returned is never changed: it is the      *)
(* genre field of the Planner's value (or "Drama" when there is none), every     *)
(* later call that takes a genre was issued with it, and the result and the      *)
(* response report it.                                                           *)
C21_GenreNeverChanges ==
    \A r \in DOMAIN pc :
        /\ genre[r] # Unset => genre[r] = Get(plan_data[r], "genre", S("Drama")).val
        /\ \A i \in 1..Len(calls[r]) :
              calls[r][i].agent \in GenreStages => calls[r][i].genre = genre[r]
        /\ HasResult(r) => result[r].genre = genre[r]
        /\ Completed(r) => outcome[r].body.genre = genre[r]

C21_Witness ==
    \E r \in DOMAIN pc :
        /\ HasResult(r)
        /\ Called(r, "personalized")
        /\ genre[r] = S("Sci-Fi")
        /\ calls[r][Len(calls[r])].genre = S("Sci-Fi")
        /\ result[r].genre = S("Sci-Fi")

CallsBy(r, agent) == Cardinality({i \in 1..Len(calls[r]) : calls[r][i].agent = agent})

(* C22: a run calls the Generation Port at most once for each agent, exactly     *)
(* once for each of the six unconditional agents when it returns its result;     *)
(* the failed call is the last call of its run; and an agent whose completion    *)
(* did not parse was called once.                                                *)
C22_OneCallPerStage ==
    \A r \in DOMAIN pc :
        /\ \A agent \in GenStages : CallsBy(r, agent) <= 1
        /\ HasResult(r) =>
              \A agent \in GenStages \ {"personalized"} : CallsBy(r, agent) = 1
        /\ GenerationFailed(r) =>
              /\ Len(calls[r]) = Len(responses[r]) + 1
              /\ pc[r] = "failed"
        /\ \A i \in 1..Len(responses[r]) :
              ~CleanAndLoad(responses[r][i]).ok =>
                  /\ CallsBy(r, calls[r][i].agent) = 1
                  /\ Len(calls[r]) > i => calls[r][i + 1].agent # calls[r][i].agent

C22_Witness ==
    \E r \in DOMAIN pc :
        /\ HasResult(r)
        /\ responses[r][1] = <<Word("I do not know this title.")>>
        /\ plan_data[r] = PlannerDefault
        /\ CallsBy(r, "planner") = 1
        /\ Len(calls[r]) = 6

(* `out` is the first min(n, cap) entries of the list `in`, in order, or the     *)
(* empty list when `in` is no list                                               *)
FirstEntries(in, out, cap) ==
    /\ out.kind = "list"
    /\ IF in.kind = "list"
       THEN /\ Len(out.items) = (IF Len(in.items) < cap THEN Len(in.items) ELSE cap)
            /\ \A i \in 1..Len(out.items) : out.items[i] = in.items[i]
       ELSE out.items = <<>>

(* C23: what the validator returns has the first min(n,5) recommendations and    *)
(* the first min(n,3) captions of the draft, in order, the empty list for a      *)
(* value that is no list, and every other field of the draft as assembled.       *)
C23_ValidatorKeepsPrefix ==
    \A r \in DOMAIN pc :
        HasResult(r) =>
            /\ FirstEntries(recommendations[r], result[r].recommendations, 5)
            /\ FirstEntries(captions[r], result[r].instagram_captions, 3)
            /\ result[r].movie_title = movie_title[r]
            /\ result[r].genre = genre[r]
            /\ result[r].overall_sentiment = Get(sentiment_data[r], "overall", S("Mixed")).val
            /\ result[r].audience_sentiment =
                   Get(sentiment_data[r], "analysis", PyStr(<<>>)).val
            /\ result[r].critic_analysis = critic_analysis[r]
            /\ result[r].summary = summary[r]
            /\ result[r].personalized_recommendations = personalized_recs[r]

C23_Witness ==
    \E r \in DOMAIN pc :
        /\ HasResult(r)
        /\ recommendations[r] = RecList(6)
        /\ result[r].recommendations = RecList(5)
        /\ captions[r] = PyNum(3)
        /\ result[r].instagram_captions = PyList(<<>>)
        /\ result[r].personalized_recommendations = RecList(ManyItems)

(* what analyze_movie returns for `title` when it runs alone and its calls       *)
(* return `texts`, in order, without preferences                                 *)
ResultAlone(title, texts) ==
    LET plan == planner_agent(texts[1])
        sentiment == sentiment_agent(texts[3])
        draft == [movie_title |-> PyStr(title),
                  genre |-> Get(plan, "genre", S("Drama")).val,
                  overall_sentiment |-> Get(sentiment, "overall", S("Mixed")).val,
                  critic_analysis |-> critic_agent(texts[2]),
                  audience_sentiment |-> Get(sentiment, "analysis", PyStr(<<>>)).val,
                  summary |-> summary_agent(texts[4]),
                  recommendations |-> recommendation_agent(texts[5]),
                  personalized_recommendations |-> PyList(<<>>),
                  instagram_captions |-> social_media_agent(title, texts[6])]
    IN  validator_agent(draft).val.data

(* C24: however two requests interleave, the result of each is the result its    *)
(* own title and the completions returned to its own calls give when it runs     *)
(* alone, its response is built from that result, and the document stored for   *)
(* it is that response.                                                          *)
C24_NoInterference ==
    \A r \in DOMAIN pc :
        /\ HasResult(r) =>
              result[r] = ResultAlone(Strip(request[r].movie_title), responses[r])
        /\ Completed(r) =>
              /\ outcome[r].body =
                     MovieAnalysisResponse(r, ResultAlone(Strip(request[r].movie_title),
                                                          responses[r]))
              /\ \E i \in 1..Len(store) : store[i] = outcome[r].body

C24_Witness ==
    \E r1 \in DOMAIN pc, r2 \in DOMAIN pc :
        /\ r1 < r2
        /\ Completed(r1) /\ Completed(r2)
        /\ store[1].id = r2
        /\ outcome[r1].body.genre = S("Sci-Fi")
        /\ outcome[r2].body.genre = S("Drama")

(* C25: a 200 response exists only once its document is in the store: the store  *)
(* then holds exactly one document with the response's id, equal to the response *)
(* body; while the insert is pending the caller has nothing; and a request whose *)
(* insert failed has an error, no response body and no document.                 *)
C25_ResponseAfterInsert ==
    \A r \in DOMAIN pc :
        /\ Completed(r) =>
              /\ pc[r] = "done"
              /\ Cardinality({i \in 1..Len(store) : store[i].id = r}) = 1
              /\ \E i \in 1..Len(store) : store[i] = outcome[r].body /\ store[i].id = r
        /\ pc[r] = "insert" => outcome[r] = Unset /\ ~Stored(r)
        /\ outcome[r] = Http500("InsertError") =>
              /\ pc[r] = "failed"
              /\ HasResult(r)
              /\ ~Stored(r)

C25_Witness ==
    \E r1 \in DOMAIN pc, r2 \in DOMAIN pc :
        /\ Completed(r1)
        /\ store = <<outcome[r1].body>>
        /\ pc[r2] = "insert"
        /\ outcome[r2] = Unset

(* the position of a stage in the pipeline *)
Rank(p) ==
    CASE p = "idle" -> 0
      [] p = "planner" -> 1
      [] p = "critic" -> 2
      [] p = "sentiment" -> 3
      [] p = "summary" -> 4
      [] p = "recommendation" -> 5
      [] p = "social" -> 6
      [] p = "personalized" -> 7
      [] p = "insert" -> 8
      [] OTHER -> 9

Accepted(r) == pc[r] \in GenStages \cup {"insert"}

Terminated(r) ==
    \/ pc[r] = "done" /\ HasResult(r) /\ outcome[r].kind \in {"http", "returned"}
    \/ pc[r] = "failed" /\ outcome[r].kind \in {"http", "raised"} /\ ~Completed(r)

(* a step of request r moves it to a later stage *)
MovesForward(r) ==
    (pc'[r] # pc[r] \/ responses'[r] # responses[r] \/ calls'[r] # calls[r]) =>
        Rank(pc'[r]) > Rank(pc[r])

(* C26: when every call and the insert eventually return or fail, a request that *)
(* was accepted eventually terminates, with its result returned or with an       *)
(* error; and every step takes the request to a later stage, never back.         *)
C26_Terminates ==
    /\ \A r \in LiveRuns : Accepted(r) ~> Terminated(r)
    /\ [][\A r \in LiveRuns : MovesForward(r)]_vars

C26_Witness ==
    \E r \in DOMAIN pc :
        /\ Terminated(r)
        /\ pc[r] = "done"
        /\ entry[r] = "endpoint"
        /\ Len(responses[r]) = 6
        /\ EMERGENT_LLM_KEY

=============================================================================
